---- MODULE Spec2Model ----
(***************************************************************************)
(* Model of the two batch scripts of songwalker-library:                   *)
(*   scripts/convert-webaudiofontdata.mjs  (the Converter)                 *)
(*   scripts/generate-index.js             (the Indexer)                   *)
(*                                                                         *)
(* Strings that the code only copies are TLA+ strings.  Strings that the   *)
(* code rewrites character by character (instrument and library names)     *)
(* are sequences of one-character strings until they have been rewritten.  *)
(* A path is the sequence of its components below the output directory.    *)
(* An optional value of the Converter is <<>> when absent and <<v>> when    *)
(* present.  A JSON document of the tree the Indexer reads is a record     *)
(* that has a field exactly when the document has it, and the strings the  *)
(* Indexer compares or rewrites are sequences of characters.               *)
(***************************************************************************)
EXTENDS Integers, Sequences, FiniteSets, TLC

\* ------------------------------------------------------------------ bounds

\* The most zones the instrument documents of one run hold together.
MaxZones == 3

\* The most preset.json files of the tree the Indexer reads.
MaxPresets == 3

\* ------------------------------------------------------- JavaScript values

Absent == <<>>

Some(v) == <<v>>

\* x || d on an optional number: absent and 0 are falsy.
OrDefault(x, d) == IF x = Absent \/ x[1] = 0 THEN d ELSE x[1]

\* x ?? d
Coalesce(x, d) == IF x = Absent THEN d ELSE x[1]

\* JavaScript's %: the remainder has the sign of the dividend.
JsRem(a, b) == IF a >= 0 THEN a % b ELSE -((-a) % b)

Min2(a, b) == IF a <= b THEN a ELSE b

Max2(a, b) == IF a >= b THEN a ELSE b

RECURSIVE JoinChars(_)
\* The string made of a sequence of one-character strings.
JoinChars(cs) == IF cs = <<>> THEN "" ELSE Head(cs) \o JoinChars(Tail(cs))

Digits == {"0", "1", "2", "3", "4", "5", "6", "7", "8", "9"}

Letters ==
    {"a", "b", "c", "d", "e", "f", "g", "h", "i", "j", "k", "l", "m",
     "n", "o", "p", "q", "r", "s", "t", "u", "v", "w", "x", "y", "z",
     "A", "B", "C", "D", "E", "F", "G", "H", "I", "J", "K", "L", "M",
     "N", "O", "P", "Q", "R", "S", "T", "U", "V", "W", "X", "Y", "Z"}

\* [a-zA-Z0-9]
AlnumChars == Letters \cup Digits

RECURSIVE DecimalChars(_)
\* `${n}` for a number n >= 0, one character per digit.
DecimalChars(n) ==
    LET d == <<"0", "1", "2", "3", "4", "5", "6", "7", "8", "9">>[(n % 10) + 1]
    IN  IF n < 10 THEN <<d>> ELSE Append(DecimalChars(n \div 10), d)

\* --------------------------------------------------- GM category mapping

GM_CATEGORIES ==
    << "piano", "piano", "piano", "piano", "piano", "piano", "piano", "piano",
       "chromatic-percussion", "chromatic-percussion", "chromatic-percussion", "chromatic-percussion",
       "chromatic-percussion", "chromatic-percussion", "chromatic-percussion", "chromatic-percussion",
       "organ", "organ", "organ", "organ", "organ", "organ", "organ", "organ",
       "guitar", "guitar", "guitar", "guitar", "guitar", "guitar", "guitar", "guitar",
       "bass", "bass", "bass", "bass", "bass", "bass", "bass", "bass",
       "strings", "strings", "strings", "strings", "strings", "strings", "strings", "strings",
       "ensemble", "ensemble", "ensemble", "ensemble", "ensemble", "ensemble", "ensemble", "ensemble",
       "brass", "brass", "brass", "brass", "brass", "brass", "brass", "brass",
       "reed", "reed", "reed", "reed", "reed", "reed", "reed", "reed",
       "pipe", "pipe", "pipe", "pipe", "pipe", "pipe", "pipe", "pipe",
       "synth-lead", "synth-lead", "synth-lead", "synth-lead", "synth-lead", "synth-lead", "synth-lead", "synth-lead",
       "synth-pad", "synth-pad", "synth-pad", "synth-pad", "synth-pad", "synth-pad", "synth-pad", "synth-pad",
       "synth-effects", "synth-effects", "synth-effects", "synth-effects", "synth-effects", "synth-effects", "synth-effects", "synth-effects",
       "ethnic", "ethnic", "ethnic", "ethnic", "ethnic", "ethnic", "ethnic", "ethnic",
       "percussive", "percussive", "percussive", "percussive", "percussive", "percussive", "percussive", "percussive",
       "sound-effects", "sound-effects", "sound-effects", "sound-effects", "sound-effects", "sound-effects", "sound-effects", "sound-effects" >>

\* GmCategoryAt gone wrong: the array is taken to start at index 1.
GmCategoryAtOneBased(gmProgram) ==
    IF gmProgram >= 1 /\ gmProgram <= Len(GM_CATEGORIES)
    THEN Some(GM_CATEGORIES[gmProgram]) ELSE Absent

\* GM_CATEGORIES[gmProgram], <<>> when the index is outside the array
\* (JavaScript arrays are 0-based, TLA+ sequences 1-based).
GmCategoryAt(gmProgram) ==
    IF gmProgram >= 0 /\ gmProgram < Len(GM_CATEGORIES)
    THEN Some(GM_CATEGORIES[gmProgram + 1]) ELSE Absent

NOTE_NAMES == <<"C", "Db", "D", "Eb", "E", "F", "Gb", "G", "Ab", "A", "Bb", "B">>

\* The characters of midiToNoteName(midi), for 0 <= midi.
midiToNoteChars(midi) ==
    LET octave == (midi \div 12) - 1
        note   == midi % 12
        name   == NOTE_NAMES[note + 1]
        nameChars == IF name = "Db" THEN <<"D", "b">>
                     ELSE IF name = "Eb" THEN <<"E", "b">>
                     ELSE IF name = "Gb" THEN <<"G", "b">>
                     ELSE IF name = "Ab" THEN <<"A", "b">>
                     ELSE IF name = "Bb" THEN <<"B", "b">>
                     ELSE <<name>>
    IN  nameChars \o (IF octave < 0 THEN <<"-">> \o DecimalChars(-octave)
                      ELSE DecimalChars(octave))

midiToNoteName(midi) == JoinChars(midiToNoteChars(midi))

\* ------------------------------------------------------ pitch normalization

\* normalizePitch gone wrong: the root note is rounded to the nearest note.
normalizePitchRounding(zone) ==
    LET originalPitch == OrDefault(zone.originalPitch, 6000)
        coarseTune    == OrDefault(zone.coarseTune, 0)
        fineTune      == OrDefault(zone.fineTune, 0)
        baseDetune    == originalPitch - 100 * coarseTune - fineTune
    IN  [ rootNote      |-> Max2(0, Min2(127, (baseDetune + 50) \div 100)),
          fineTuneCents |-> JsRem(baseDetune, 100) ]

normalizePitch(zone) ==
    LET originalPitch == OrDefault(zone.originalPitch, 6000)
        coarseTune    == OrDefault(zone.coarseTune, 0)
        fineTune      == OrDefault(zone.fineTune, 0)
        baseDetune    == originalPitch - 100 * coarseTune - fineTune
    IN  [ rootNote      |-> Max2(0, Min2(127, baseDetune \div 100)),
          fineTuneCents |-> JsRem(baseDetune, 100) ]

\* --------------------------------------------------------- audio extraction

\* Buffer.from(text, 'base64') on the payload texts of the model: the bytes
\* "ID3" (an ID3 tag), FF FB 90 (an MPEG sync word).  Whitespace in a base64
\* text is skipped by the decoder, so two texts decode to the same bytes.
Base64Decode(text) ==
    CASE text = "SUQz"   -> <<73, 68, 51>>
      [] text = "SUQz\n" -> <<73, 68, 51>>
      [] text = "//uQ"   -> <<255, 251, 144>>
      [] OTHER           -> <<>>

\* createHash('sha256').update(buffer).digest('hex').slice(0, 16): a value
\* determined by the bytes, taken to be different for the different byte
\* strings of the model.
Sha256Hex16(buffer) == <<"sha256", buffer>>

\* The codec (and file extension) sniffed from the content.
SniffCodec(isFile, buffer) ==
    IF isFile
    THEN IF Len(buffer) >= 3 /\ buffer[1] = 73 /\ buffer[2] = 68 /\ buffer[3] = 51
         THEN "mp3"
         ELSE IF Len(buffer) >= 2 /\ buffer[1] = 255 /\ buffer[2] \div 32 = 7
         THEN "mp3"
         ELSE IF Len(buffer) >= 3 /\ buffer[1] = 79 /\ buffer[2] = 103 /\ buffer[3] = 103
         THEN "ogg"
         ELSE "wav"
    ELSE "raw"

\* writeFileSync(path, content): the file is created or replaced.  writes
\* counts the calls per path (a history of the run, not a value the code
\* keeps).
WriteFile(s, path, content) ==
    [s EXCEPT !.fs = (path :> content) @@ s.fs,
              !.writes = (path :> (IF path \in DOMAIN s.writes
                                   THEN s.writes[path] + 1 ELSE 1)) @@ s.writes]

\* The dedup check of extractAudio: count a hash seen before, record a new one.
DedupCheck(s, hashKey, filename) ==
    IF hashKey \in DOMAIN s.audioHashes
    THEN [s EXCEPT !.audioHashes =
                       (hashKey :> [filename |-> s.audioHashes[hashKey].filename,
                                    count |-> s.audioHashes[hashKey].count + 1])
                       @@ s.audioHashes,
                   !.totalDedupSaved = s.totalDedupSaved + 1]
    ELSE [s EXCEPT !.audioHashes =
                       (hashKey :> [filename |-> filename, count |-> 1])
                       @@ s.audioHashes]

\* StoreAudio gone wrong: the write is not guarded by DRY_RUN.
StoreAudioUnguarded(s, filepath, buffer, DRY_RUN) ==
    WriteFile(s, filepath, [kind |-> "audio", bytes |-> buffer])

\* The write of the decoded buffer at the end of extractAudio.
StoreAudio(s, filepath, buffer, DRY_RUN) ==
    IF ~DRY_RUN THEN WriteFile(s, filepath, [kind |-> "audio", bytes |-> buffer])
    ELSE s

\* extractAudio(zone, presetDir, zoneIndex, noteName) in run state s.
\* ret is <<>> for null; threw is an exception leaving the function.
extractAudio(s, zone, presetDir, zoneIndex, noteName, DRY_RUN) ==
    LET audioData == IF zone.file # Absent THEN zone.file ELSE zone.sample
    IN  IF audioData = Absent
        THEN [st |-> s, ret |-> Absent, threw |-> FALSE]
        ELSE IF audioData[1].type # "string"
        THEN [st |-> s, ret |-> Absent, threw |-> TRUE]
        ELSE
          LET isFile   == zone.file # Absent
              buffer   == Base64Decode(audioData[1].text)
              hash     == Sha256Hex16(buffer)
              codec    == SniffCodec(isFile, buffer)
              filename == "zone_" \o noteName \o "." \o codec
              filepath == Append(presetDir, filename)
              s1       == DedupCheck([s EXCEPT !.nAudio = s.nAudio + 1], hash, filename)
              s2       == StoreAudio(s1, filepath, buffer, DRY_RUN)
          IN  [st |-> s2,
               ret |-> Some([filename |-> filename, codec |-> codec, sha256 |-> hash]),
               threw |-> FALSE]

\* ---------------------------------------------------------- zone conversion

\* The loop region of a converted zone, present when the input's is valid.
LoopOf(zone) ==
    IF zone.loopStart # Absent /\ zone.loopEnd # Absent
       /\ zone.loopStart[1] >= 0 /\ zone.loopEnd[1] > zone.loopStart[1]
    THEN Some([start |-> zone.loopStart[1], end |-> zone.loopEnd[1]])
    ELSE Absent

\* The zone convertZone returns for the pitch np and the result r of
\* extractAudio: null when there is no audio.
ConvertedZone(zone, np, r) ==
    IF r.threw \/ r.ret = Absent
    THEN r
    ELSE [st |-> r.st,
          ret |-> Some([ keyRange |-> [low  |-> Coalesce(zone.keyRangeLow, 0),
                                       high |-> Coalesce(zone.keyRangeHigh, 127)],
                         pitch |-> [rootNote |-> np.rootNote,
                                    fineTuneCents |-> np.fineTuneCents],
                         sampleRate |-> OrDefault(zone.sampleRate, 44100),
                         audio |-> [type |-> "external",
                                    url |-> r.ret[1].filename,
                                    codec |-> r.ret[1].codec,
                                    sha256 |-> r.ret[1].sha256],
                         loop |-> LoopOf(zone) ]),
          threw |-> FALSE]

convertZone(s, zone, presetDir, zoneIndex, DRY_RUN) ==
    ConvertedZone(zone, normalizePitch(zone),
                  extractAudio(s, zone, presetDir, zoneIndex,
                               midiToNoteName(normalizePitch(zone).rootNote), DRY_RUN))

\* ---------------------------------------------------- instrument conversion

RECURSIVE KeepNameChars(_)
\* name.replace(/[^a-zA-Z0-9 ]/g, '')
KeepNameChars(cs) ==
    IF cs = <<>> THEN <<>>
    ELSE IF Head(cs) \in AlnumChars \cup {" "}
         THEN <<Head(cs)>> \o KeepNameChars(Tail(cs))
         ELSE KeepNameChars(Tail(cs))

RECURSIVE CollapseSpaces(_)
\* text.replace(/\s+/g, '_'): every run of whitespace becomes one underscore.
CollapseSpaces(cs) ==
    IF cs = <<>> THEN <<>>
    ELSE IF Head(cs) = " "
         THEN IF Len(cs) > 1 /\ cs[2] = " "
              THEN CollapseSpaces(Tail(cs))
              ELSE <<"_">> \o CollapseSpaces(Tail(cs))
         ELSE <<Head(cs)>> \o CollapseSpaces(Tail(cs))

\* The directory name of an instrument.
SafeName(instrumentName) == JoinChars(CollapseSpaces(KeepNameChars(instrumentName)))

\* libraryName.replace(/[^a-zA-Z0-9]/g, '_'), still as characters: main
\* rewrites the library name once more for the index documents.
SafeLib(libraryName) ==
    [i \in 1..Len(libraryName) |->
        IF libraryName[i] \in AlnumChars THEN libraryName[i] ELSE "_"]

\* path.join of the components below OUTPUT_DIR: empty components vanish.
JoinPath(components) == SelectSeq(components, LAMBDA c : c # "")

\* IsPercussion gone wrong: only the first zone is looked at.
IsPercussionFirstZone(zones) ==
    Len(zones) >= 1 /\ zones[1].midi # Absent /\ zones[1].midi[1] = 128

\* zones.some(z => z.midi === 128)
IsPercussion(zones) ==
    \E i \in 1..Len(zones) : zones[i].midi # Absent /\ zones[i].midi[1] = 128

\* The category that names the output directory.
CategoryOf(isPercussion, gmProgram) ==
    IF isPercussion THEN "percussion"
    ELSE IF GmCategoryAt(gmProgram) # Absent THEN GmCategoryAt(gmProgram)[1]
    ELSE "unknown"

\* The preset directory, below OUTPUT_DIR.
PresetPath(isPercussion, category, safeLib, safeName) ==
    IF isPercussion
    THEN JoinPath(<<JoinChars(safeLib), "percussion", "individual", safeName>>)
    ELSE JoinPath(<<JoinChars(safeLib), "instruments", category, safeName>>)

\* mkdirSync(path, { recursive: true }): the directory and its ancestors.
MkdirRecursive(s, path) ==
    [s EXCEPT !.dirs = s.dirs \cup {SubSeq(path, 1, n) : n \in 0..Len(path)}]

\* The directory creation of convertInstrument.
MakePresetDir(s, presetPath, DRY_RUN) ==
    IF ~DRY_RUN THEN MkdirRecursive(s, presetPath) ELSE s

RECURSIVE ConvertZones(_, _, _, _, _, _)
RECURSIVE AfterZone(_, _, _, _, _, _)
\* The zone loop of convertInstrument from zone i on; acc holds the zones
\* converted so far.  An exception of convertZone ends the loop.
ConvertZones(s, zones, i, presetPath, acc, DRY_RUN) ==
    IF i > Len(zones)
    THEN [st |-> s, zones |-> acc, threw |-> FALSE]
    ELSE AfterZone(convertZone(s, zones[i], presetPath, i - 1, DRY_RUN),
                   zones, i, presetPath, acc, DRY_RUN)

\* The rest of the loop after zone i, whose conversion gave r:
\* if (z) convertedZones.push(z).
AfterZone(r, zones, i, presetPath, acc, DRY_RUN) ==
    IF r.threw
    THEN [st |-> r.st, zones |-> acc, threw |-> TRUE]
    ELSE ConvertZones(r.st, zones, i + 1, presetPath,
                      IF r.ret = Absent THEN acc ELSE Append(acc, r.ret[1]),
                      DRY_RUN)

\* The tags of the preset document.
BuildTags(isPercussion, category, gmProgram, convertedZones) ==
    <<IF isPercussion THEN "percussion" ELSE "melodic">>
    \o (IF ~isPercussion THEN <<category>> ELSE <<>>)
    \o <<"gm:" \o ToString(gmProgram)>>
    \o (IF \E i \in 1..Len(convertedZones) : convertedZones[i].loop # Absent
        THEN <<"sustained", "looped">> ELSE <<"one-shot">>)

\* The metadata of the preset document; JSON.stringify leaves out a
\* gmCategory that is undefined.
PresetMetadata(gmProgram, gmCategory, source, variant) ==
    IF gmCategory # Absent
    THEN [ gmProgram |-> gmProgram, gmCategory |-> gmCategory[1], source |-> source,
           variant |-> variant, license |-> "See original SF2 license" ]
    ELSE [ gmProgram |-> gmProgram, source |-> source,
           variant |-> variant, license |-> "See original SF2 license" ]

BuildPreset(instrumentName, tags, gmProgram, isPercussion, libraryName, variant, convertedZones) ==
    [ format   |-> "songwalker-preset",
      version  |-> 1,
      name     |-> JoinChars(instrumentName),
      category |-> "sampler",
      tags     |-> tags,
      metadata |-> PresetMetadata(gmProgram,
                                  IF isPercussion THEN Some("Percussion")
                                  ELSE GmCategoryAt(gmProgram),
                                  JoinChars(libraryName), variant),
      node     |-> [ type   |-> "sampler",
                     config |-> [ oneShot |-> isPercussion,
                                  zones   |-> convertedZones ] ] ]

\* The write of preset.json in convertInstrument.
StorePreset(s, presetPath, preset, DRY_RUN) ==
    IF ~DRY_RUN
    THEN WriteFile(s, Append(presetPath, "preset.json"),
                   [kind |-> "json", parses |-> TRUE, json |-> preset])
    ELSE s

\* presetPath.replace(libraryDir + '/', '') + '/preset.json', as the
\* components of the path: the library directory is the first component.
RelativePath(presetPath, safeLib) ==
    (IF Len(presetPath) >= 1 /\ presetPath[1] = JoinChars(safeLib)
     THEN Tail(presetPath) ELSE presetPath) \o <<"preset.json">>

RECURSIVE MinLow(_)
MinLow(zs) == IF Len(zs) = 1 THEN zs[1].keyRange.low
              ELSE Min2(zs[1].keyRange.low, MinLow(Tail(zs)))

RECURSIVE MaxHigh(_)
MaxHigh(zs) == IF Len(zs) = 1 THEN zs[1].keyRange.high
               ELSE Max2(zs[1].keyRange.high, MaxHigh(Tail(zs)))

\* The summary entry convertInstrument returns.
SummaryEntry(instrumentName, presetPath, safeLib, tags, gmProgram, convertedZones) ==
    [ name      |-> JoinChars(instrumentName),
      path      |-> RelativePath(presetPath, safeLib),
      category  |-> "sampler",
      tags      |-> tags,
      gmProgram |-> gmProgram,
      library   |-> safeLib,
      zoneCount |-> Len(convertedZones),
      keyRange  |-> [low  |-> MinLow(convertedZones),
                     high |-> MaxHigh(convertedZones)] ]

\* convertInstrument from "Build tags" on: the preset document is written
\* and the summary entry returned.
EmitPreset(s, convertedZones, tags, presetPath, isPercussion, gmProgram, instrumentName, libraryName, variant, DRY_RUN) ==
    [ st |-> StorePreset(s, presetPath,
                         BuildPreset(instrumentName, tags, gmProgram, isPercussion,
                                     libraryName, variant, convertedZones),
                         DRY_RUN),
      ret |-> Some(SummaryEntry(instrumentName, presetPath, SafeLib(libraryName),
                                tags, gmProgram, convertedZones)),
      threw |-> FALSE ]

\* convertInstrument after its zone loop, which gave zr:
\* if (convertedZones.length === 0) return null.
AfterZones(zr, presetPath, isPercussion, category, gmProgram, instrumentName, libraryName, variant, DRY_RUN) ==
    IF zr.threw
    THEN [st |-> zr.st, ret |-> Absent, threw |-> TRUE]
    ELSE IF Len(zr.zones) = 0
    THEN [st |-> zr.st, ret |-> Absent, threw |-> FALSE]
    ELSE EmitPreset(zr.st, zr.zones,
                    BuildTags(isPercussion, category, gmProgram, zr.zones),
                    presetPath, isPercussion, gmProgram,
                    instrumentName, libraryName, variant, DRY_RUN)

\* convertInstrument from the directory creation on, for the preset
\* directory presetPath.
ConvertInto(s, zones, presetPath, isPercussion, category, gmProgram, instrumentName, libraryName, variant, DRY_RUN) ==
    AfterZones(ConvertZones(MakePresetDir(s, presetPath, DRY_RUN), zones, 1,
                            presetPath, <<>>, DRY_RUN),
               presetPath, isPercussion, category, gmProgram,
               instrumentName, libraryName, variant, DRY_RUN)

\* convertInstrument for a non-empty zone list, isPercussion being known.
ConvertRouted(s, zones, isPercussion, gmProgram, instrumentName, libraryName, variant, DRY_RUN) ==
    ConvertInto(s, zones,
                PresetPath(isPercussion, CategoryOf(isPercussion, gmProgram),
                           SafeLib(libraryName), SafeName(instrumentName)),
                isPercussion, CategoryOf(isPercussion, gmProgram), gmProgram,
                instrumentName, libraryName, variant, DRY_RUN)

\* convertInstrument(filePath, gmProgram, instrumentName, libraryName, variant)
\* on the document doc read from filePath, in run state s.
convertInstrument(s, doc, gmProgram, instrumentName, libraryName, variant, DRY_RUN) ==
    IF ~doc.parses
    THEN [st |-> s, ret |-> Absent, threw |-> TRUE]
    ELSE IF Len(doc.zones) = 0
    THEN [st |-> s, ret |-> Absent, threw |-> FALSE]
    ELSE ConvertRouted(s, doc.zones, IsPercussion(doc.zones), gmProgram,
                       instrumentName, libraryName, variant, DRY_RUN)

\* ------------------------------------------------------------ the input

\* A zone of an input document with only the given fields present.
NoZoneFields ==
    [ file |-> Absent, sample |-> Absent, midi |-> Absent,
      originalPitch |-> Absent, coarseTune |-> Absent, fineTune |-> Absent,
      keyRangeLow |-> Absent, keyRangeHigh |-> Absent,
      loopStart |-> Absent, loopEnd |-> Absent, sampleRate |-> Absent ]

JsonString(text) == [type |-> "string", text |-> text]

\* A compressed payload with an ID3 tag, a loop and a key range (the zone of
\* the specification's end-to-end example): root note C4.
ZoneLoopedMp3 ==
    [NoZoneFields EXCEPT !.file = Some(JsonString("SUQz")),
                         !.keyRangeLow = Some(21), !.keyRangeHigh = Some(108),
                         !.loopStart = Some(10000), !.loopEnd = Some(20000)]

\* A raw sample with the same bytes, on the percussion channel, tuned
\* between two notes: root note Db4, 50 cents.
ZoneDrumRaw ==
    [NoZoneFields EXCEPT !.sample = Some(JsonString("SUQz\n")),
                         !.midi = Some(128),
                         !.originalPitch = Some(6250), !.coarseTune = Some(1),
                         !.sampleRate = Some(22050)]

\* A compressed payload with other bytes and the root note C4 again; its
\* loop region is empty, hence not valid.
ZoneOtherMp3 ==
    [NoZoneFields EXCEPT !.file = Some(JsonString("//uQ")),
                         !.midi = Some(0),
                         !.originalPitch = Some(6000),
                         !.keyRangeLow = Some(0), !.keyRangeHigh = Some(60),
                         !.loopStart = Some(5), !.loopEnd = Some(5)]

\* A zone with neither file nor sample, on the percussion channel.
ZoneNoAudio ==
    [NoZoneFields EXCEPT !.midi = Some(128), !.keyRangeLow = Some(35)]

\* A zone whose file is a number: Buffer.from throws a TypeError.
ZoneBadPayload ==
    [NoZoneFields EXCEPT !.file = Some([type |-> "number"])]

GoodZones == {ZoneLoopedMp3, ZoneDrumRaw, ZoneOtherMp3, ZoneNoAudio}

\* The zone lists of at most max zones.  The zones behind one that throws
\* are never read, so the throwing zone is the last of its list.
ZoneLists(max) ==
    UNION { [1..n -> GoodZones] : n \in 0..max }
    \cup UNION { { Append(zl, ZoneBadPayload) : zl \in [1..(n - 1) -> GoodZones] }
                 : n \in 1..max }

\* The content of an instrument file: text that JSON.parse rejects, or a
\* document with a list of at most max zones.
InstrumentDocs(max) ==
    { [parses |-> FALSE, zones |-> <<>>] }
    \cup { [parses |-> TRUE, zones |-> zl] : zl \in ZoneLists(max) }

\* The document of an iteration that reads no file.
NoDoc == [parses |-> FALSE, zones |-> <<>>]

LibraryChars == <<"F", "_", "G">>

\* readdirSync(SOURCE_DIR/i), the names ending in .json, sorted.  m holds
\* what the pattern of parseInstrumentFilename captures, when it matches.
InstrumentFiles ==
    << [name |-> "0000_F_G_sf2_file.json", m |-> Some([code |-> 0, library |-> LibraryChars])],
       [name |-> "0001_F_G_sf2_file.json", m |-> Some([code |-> 1, library |-> LibraryChars])],
       [name |-> "1280_F_G_sf2.json",      m |-> Some([code |-> 1280, library |-> LibraryChars])],
       [name |-> "notes.json",             m |-> Absent] >>

\* readdirSync(SOURCE_DIR/p), the names ending in .json, sorted.
PercussionFiles ==
    << [name |-> "35_0_F_G_sf2_file.json",
        m |-> Some([midiNote |-> 35, variant |-> 0, library |-> LibraryChars])],
       [name |-> "names.json", m |-> Absent] >>

\* instrumentNames.json: the GM name of each program the table knows.
InstrumentNames ==
    (0 :> <<"G", "d", " ", "P", "i", "a", "n", "o", ":", " ", "P", "i", "a", "n", "o">>)

\* --limit: one conversion, or none given.
Infinity == Len(InstrumentFiles) + Len(PercussionFiles) + 1

Limits == {1, Infinity}

\* ---------------------------------------------------- instrument file names

parseInstrumentFilename(file) ==
    IF file.m = Absent THEN Absent
    ELSE Some([ gmProgram |-> file.m[1].code \div 10,
                variant   |-> file.m[1].code % 10,
                library   |-> file.m[1].library ])

parsePercussionFilename(file) ==
    IF file.m = Absent THEN Absent
    ELSE Some([ midiNote |-> file.m[1].midiNote,
                variant  |-> file.m[1].variant,
                library  |-> file.m[1].library ])

RECURSIVE BeforeColon(_)
\* name.split(':')[0]
BeforeColon(cs) ==
    IF cs = <<>> \/ Head(cs) = ":" THEN <<>> ELSE <<Head(cs)>> \o BeforeColon(Tail(cs))

RECURSIVE Trim(_)
\* text.trim()
Trim(cs) ==
    IF cs = <<>> THEN <<>>
    ELSE IF Head(cs) = " " THEN Trim(Tail(cs))
    ELSE IF cs[Len(cs)] = " " THEN Trim(SubSeq(cs, 1, Len(cs) - 1))
    ELSE cs

\* The display name of a GM program.
CleanName(gmProgram) ==
    LET name == IF gmProgram \in DOMAIN InstrumentNames /\ InstrumentNames[gmProgram] # <<>>
                THEN InstrumentNames[gmProgram]
                ELSE <<"P", "r", "o", "g", "r", "a", "m", " ">> \o DecimalChars(gmProgram)
    IN  Trim(BeforeColon(name))

\* `Percussion_${noteName}_${info.midiNote}`
PercussionName(midiNote) ==
    <<"P", "e", "r", "c", "u", "s", "s", "i", "o", "n", "_">>
    \o midiToNoteChars(midiNote) \o <<"_">> \o DecimalChars(midiNote)

\* --------------------------------------------------------------- the state

(***************************************************************************)
(* The Converter is modelled as two runs of the script on the same input,  *)
(* one for each value of DRY_RUN: a variable of the script is a function   *)
(* from the value of DRY_RUN to the variable's value in that run.  The     *)
(* two runs walk the same directory listings, so they share pc and idx.    *)
(***************************************************************************)
VARIABLES
    pc,                \* where main is: "start", "i", "p", "index", "done", "exit"
    idx,               \* the position of the file loop in its listing
    LIMIT,             \* --limit
    zonesLeft,         \* input: the zones the files not yet read may hold
    fs,                \* the files below OUTPUT_DIR: path -> content
    dirs,              \* the directories below OUTPUT_DIR (<<>> is OUTPUT_DIR)
    writes,            \* history: path -> number of writeFileSync calls
    audioHashes,       \* the dedup map: hash -> [filename, count]
    totalDedupSaved,
    nAudio,            \* history: the zones whose payload extractAudio decoded
    entriesByLibrary,  \* the Map, in insertion order: <<[library, entries]>>
    convertedCount,
    errorCount,
    last,              \* history: the last iteration of a file loop
    \* the Indexer
    ipc,               \* where the Indexer's main is: "off", "scan", "libs", "done"
    run,               \* history: the number of the Indexer's run, 1 or 2
    firstRun,          \* history: the files of the tree when the first run ended
    listDescending,    \* the order in which the file system lists a directory
    libraryTree,       \* LIBRARY_DIR: [fs: path -> content, dirs, writes (history)]
    topLevel,          \* the library directories, sorted
    libIdx,            \* the position of the loop over topLevel
    rootEntries,
    totalPresets,
    totalErrors,
    \* a single call of a function of the Converter
    call,              \* the arguments of the call
    returned           \* what the call returned, <<>> before it

\* The variables of the Converter.
converterVars ==
    << pc, idx, LIMIT, zonesLeft, fs, dirs, writes, audioHashes, totalDedupSaved, nAudio,
       entriesByLibrary, convertedCount, errorCount, last >>

\* The variables of the Indexer.
indexerVars ==
    << ipc, run, firstRun, listDescending, libraryTree, topLevel, libIdx, rootEntries,
       totalPresets, totalErrors >>

\* The variables of a single call.
callVars == << call, returned >>

vars == << converterVars, indexerVars, callVars >>

\* The variables of the run with DRY_RUN = d, as one record.
RunState(d) ==
    [ fs |-> fs[d], dirs |-> dirs[d], writes |-> writes[d],
      audioHashes |-> audioHashes[d], totalDedupSaved |-> totalDedupSaved[d],
      nAudio |-> nAudio[d], entriesByLibrary |-> entriesByLibrary[d],
      convertedCount |-> convertedCount[d], errorCount |-> errorCount[d] ]

EmptyMap == [x \in {} |-> 0]

InitialRun ==
    [ fs |-> EmptyMap, dirs |-> {}, writes |-> EmptyMap,
      audioHashes |-> EmptyMap, totalDedupSaved |-> 0, nAudio |-> 0,
      entriesByLibrary |-> <<>>, convertedCount |-> 0, errorCount |-> 0 ]

\* The primed variables are those of the records next[d].
SetRuns(next) ==
    /\ fs' = [d \in BOOLEAN |-> next[d].fs]
    /\ dirs' = [d \in BOOLEAN |-> next[d].dirs]
    /\ writes' = [d \in BOOLEAN |-> next[d].writes]
    /\ audioHashes' = [d \in BOOLEAN |-> next[d].audioHashes]
    /\ totalDedupSaved' = [d \in BOOLEAN |-> next[d].totalDedupSaved]
    /\ nAudio' = [d \in BOOLEAN |-> next[d].nAudio]
    /\ entriesByLibrary' = [d \in BOOLEAN |-> next[d].entriesByLibrary]
    /\ convertedCount' = [d \in BOOLEAN |-> next[d].convertedCount]
    /\ errorCount' = [d \in BOOLEAN |-> next[d].errorCount]

\* A directory with nothing in it, not even itself.
NoTree == [fs |-> EmptyMap, dirs |-> {}, writes |-> EmptyMap]

\* The Indexer before it is started.
IndexerIdle ==
    /\ ipc = "off"
    /\ run = 1
    /\ firstRun = EmptyMap
    /\ listDescending = FALSE
    /\ libraryTree = NoTree
    /\ topLevel = <<>>
    /\ libIdx = 1
    /\ rootEntries = <<>>
    /\ totalPresets = 0
    /\ totalErrors = 0

\* No single call is made.
NoCall ==
    /\ call = Absent
    /\ returned = Absent

NoIteration ==
    [ dir |-> "", file |-> 0, doc |-> NoDoc,
      outcome |-> [d \in BOOLEAN |-> ""], entry |-> [d \in BOOLEAN |-> Absent] ]

Init ==
    /\ pc = "start"
    /\ idx = 1
    /\ LIMIT \in Limits
    /\ zonesLeft = MaxZones
    /\ fs = [d \in BOOLEAN |-> InitialRun.fs]
    /\ dirs = [d \in BOOLEAN |-> InitialRun.dirs]
    /\ writes = [d \in BOOLEAN |-> InitialRun.writes]
    /\ audioHashes = [d \in BOOLEAN |-> InitialRun.audioHashes]
    /\ totalDedupSaved = [d \in BOOLEAN |-> 0]
    /\ nAudio = [d \in BOOLEAN |-> 0]
    /\ entriesByLibrary = [d \in BOOLEAN |-> <<>>]
    /\ convertedCount = [d \in BOOLEAN |-> 0]
    /\ errorCount = [d \in BOOLEAN |-> 0]
    /\ last = NoIteration
    /\ IndexerIdle
    /\ NoCall

\* ------------------------------------------------------------------- main

\* The creation of the base output directory.
MakeOutputDir(s, DRY_RUN) == IF ~DRY_RUN THEN MkdirRecursive(s, <<>>) ELSE s

RECURSIVE PushEntry(_, _, _)
\* if (!entriesByLibrary.has(lib)) entriesByLibrary.set(lib, []);
\* entriesByLibrary.get(lib).push(entry)
PushEntry(map, lib, entry) ==
    IF map = <<>> THEN << [library |-> lib, entries |-> <<entry>>] >>
    ELSE IF Head(map).library = lib
         THEN << [library |-> lib, entries |-> Append(Head(map).entries, entry)] >>
              \o Tail(map)
         ELSE << Head(map) >> \o PushEntry(Tail(map), lib, entry)

\* Account gone wrong: the catch block does not count the error.
AccountUncounted(r, entry) ==
    IF r.threw
    THEN [ st |-> r.st, outcome |-> "error", entry |-> Absent ]
    ELSE IF entry = Absent
    THEN [ st |-> r.st, outcome |-> "null", entry |-> Absent ]
    ELSE [ st |-> [r.st EXCEPT
                     !.entriesByLibrary = PushEntry(r.st.entriesByLibrary,
                                                    entry[1].library, entry[1]),
                     !.convertedCount = r.st.convertedCount + 1],
           outcome |-> "entry", entry |-> entry ]

\* What main does with the result r of convertInstrument, entry being the
\* entry it keeps (<<>> when the call returned null): the try block after
\* the call, and the catch block.
Account(r, entry) ==
    IF r.threw
    THEN [ st |-> [r.st EXCEPT !.errorCount = r.st.errorCount + 1],
           outcome |-> "error", entry |-> Absent ]
    ELSE IF entry = Absent
    THEN [ st |-> r.st, outcome |-> "null", entry |-> Absent ]
    ELSE [ st |-> [r.st EXCEPT
                     !.entriesByLibrary = PushEntry(r.st.entriesByLibrary,
                                                    entry[1].library, entry[1]),
                     !.convertedCount = r.st.convertedCount + 1],
           outcome |-> "entry", entry |-> entry ]

\* The entry main keeps for a file of i/: the one convertInstrument returned.
InstrumentEntry(r) == Account(r, r.ret)

\* The tags main gives the entry of a percussion file.
PercussionTags(midiNote) == <<"percussion", "midi:" \o ToString(midiNote)>>

\* The entry main keeps for a file of p/: its tags are replaced.
PercussionEntry(r, midiNote) ==
    Account(r, IF r.ret = Absent THEN Absent
               ELSE Some([r.ret[1] EXCEPT !.tags = PercussionTags(midiNote)]))

\* if (!info || info.gmProgram >= 128) continue
SkipsInstrumentFile(info) == info = Absent \/ info[1].gmProgram >= 128

\* if (!info) continue
SkipsPercussionFile(info) == info = Absent

\* One iteration of the loop over the files of i/, info being the parsed
\* file name and doc the content of the file.
InstrumentIteration(s, info, doc, limit, DRY_RUN) ==
    IF s.convertedCount >= limit
    THEN [st |-> s, outcome |-> "break", entry |-> Absent]
    ELSE IF SkipsInstrumentFile(info)
    THEN [st |-> s, outcome |-> "continue", entry |-> Absent]
    ELSE InstrumentEntry(convertInstrument(s, doc, info[1].gmProgram,
                                           CleanName(info[1].gmProgram),
                                           info[1].library, info[1].variant, DRY_RUN))

\* One iteration of the loop over the files of p/.
PercussionIteration(s, info, doc, limit, DRY_RUN) ==
    IF s.convertedCount >= limit
    THEN [st |-> s, outcome |-> "break", entry |-> Absent]
    ELSE IF SkipsPercussionFile(info)
    THEN [st |-> s, outcome |-> "continue", entry |-> Absent]
    ELSE PercussionEntry(convertInstrument(s, doc, 128,
                                           PercussionName(info[1].midiNote),
                                           info[1].library, info[1].variant, DRY_RUN),
                         info[1].midiNote)

\* The documents an iteration may read: none when no run reads the file.
DocsRead(skipped) ==
    IF skipped \/ \A d \in BOOLEAN : convertedCount[d] >= LIMIT
    THEN {NoDoc} ELSE InstrumentDocs(zonesLeft)

\* The state after an iteration of a file loop whose results are r.
Iterated(r, dir, doc) ==
    /\ SetRuns([d \in BOOLEAN |-> r[d].st])
    /\ last' = [ dir |-> dir, file |-> idx, doc |-> doc,
                 outcome |-> [d \in BOOLEAN |-> r[d].outcome],
                 entry |-> [d \in BOOLEAN |-> r[d].entry] ]
    /\ zonesLeft' = zonesLeft - Len(doc.zones)
    /\ idx' = idx + 1
    /\ pc' = pc

\* main, up to the file loops: the name table is loaded (the run exits when
\* it cannot be) and the output directory made.
Start ==
    /\ pc = "start"
    /\ \/ /\ pc' = "i"
          /\ SetRuns([d \in BOOLEAN |-> MakeOutputDir(RunState(d), d)])
       \/ /\ pc' = "exit"
          /\ SetRuns([d \in BOOLEAN |-> RunState(d)])
    /\ UNCHANGED << idx, LIMIT, zonesLeft, last >>
    /\ UNCHANGED indexerVars
    /\ UNCHANGED callVars

\* One iteration of the loop over i/ (or its end).
ConvertInstrumentFile ==
    /\ pc = "i"
    /\ IF idx > Len(InstrumentFiles)
       THEN /\ pc' = "p"
            /\ idx' = 1
            /\ UNCHANGED << zonesLeft, fs, dirs, writes, audioHashes, totalDedupSaved,
                            nAudio, entriesByLibrary, convertedCount, errorCount, last >>
       ELSE \E doc \in DocsRead(SkipsInstrumentFile(
                                   parseInstrumentFilename(InstrumentFiles[idx]))) :
              Iterated([d \in BOOLEAN |->
                          InstrumentIteration(RunState(d),
                                              parseInstrumentFilename(InstrumentFiles[idx]),
                                              doc, LIMIT, d)],
                       "i", doc)
    /\ UNCHANGED LIMIT
    /\ UNCHANGED indexerVars
    /\ UNCHANGED callVars

\* One iteration of the loop over p/ (or its end).
ConvertPercussionFile ==
    /\ pc = "p"
    /\ IF idx > Len(PercussionFiles)
       THEN /\ pc' = "index"
            /\ idx' = 1
            /\ UNCHANGED << zonesLeft, fs, dirs, writes, audioHashes, totalDedupSaved,
                            nAudio, entriesByLibrary, convertedCount, errorCount, last >>
       ELSE \E doc \in DocsRead(SkipsPercussionFile(
                                   parsePercussionFilename(PercussionFiles[idx]))) :
              Iterated([d \in BOOLEAN |->
                          PercussionIteration(RunState(d),
                                              parsePercussionFilename(PercussionFiles[idx]),
                                              doc, LIMIT, d)],
                       "p", doc)
    /\ UNCHANGED LIMIT
    /\ UNCHANGED indexerVars
    /\ UNCHANGED callVars

\* text.replace(/_/g, ' ')
UnderscoresToSpaces(cs) ==
    JoinChars([i \in 1..Len(cs) |-> IF cs[i] = "_" THEN " " ELSE cs[i]])

\* The entry of a library index made from a summary entry.
IndexEntry(e) ==
    [ type      |-> "preset",
      name      |-> e.name,
      path      |-> e.path,
      category  |-> e.category,
      tags      |-> e.tags,
      gmProgram |-> IF e.gmProgram < 128 THEN Some(e.gmProgram) ELSE Absent,
      zoneCount |-> Some(e.zoneCount),
      keyRange  |-> Some(e.keyRange) ]

LibraryIndex(libraryName, entries) ==
    [ format      |-> "songwalker-index",
      version     |-> 1,
      name        |-> UnderscoresToSpaces(libraryName),
      description |-> JoinChars(libraryName) \o " soundfont - "
                      \o ToString(Len(entries)) \o " presets",
      entries     |-> [i \in 1..Len(entries) |-> IndexEntry(entries[i])] ]

\* The entry of the root index for a library.
RootEntry(libraryName, entries) ==
    [ type        |-> "index",
      name        |-> UnderscoresToSpaces(libraryName),
      path        |-> <<JoinChars(libraryName), "index.json">>,
      description |-> JoinChars(libraryName) \o " soundfont",
      presetCount |-> Len(entries) ]

RootIndex(entries) ==
    [ format      |-> "songwalker-index",
      version     |-> 1,
      name        |-> "SongWalker Library",
      description |-> "Root index - select a source library to browse its presets",
      entries     |-> entries ]

JsonFile(doc) == [kind |-> "json", parses |-> TRUE, json |-> doc]

RECURSIVE WriteLibraryIndexes(_, _, _)
\* The loop over entriesByLibrary from its k-th library on.
WriteLibraryIndexes(s, k, DRY_RUN) ==
    IF k > Len(s.entriesByLibrary) THEN s
    ELSE LET lib == s.entriesByLibrary[k]
             s1  == IF ~DRY_RUN
                    THEN WriteFile(s, <<JoinChars(lib.library), "index.json">>,
                                   JsonFile(LibraryIndex(lib.library, lib.entries)))
                    ELSE s
         IN  WriteLibraryIndexes(s1, k + 1, DRY_RUN)

\* The root index written at the end of main.
WriteRootIndex(s, DRY_RUN) ==
    IF ~DRY_RUN
    THEN WriteFile(s, <<"index.json">>,
                   JsonFile(RootIndex([k \in 1..Len(s.entriesByLibrary) |->
                                RootEntry(s.entriesByLibrary[k].library,
                                          s.entriesByLibrary[k].entries)])))
    ELSE s

\* The end of main: the library indexes, then the root index.
WriteIndexes ==
    /\ pc = "index"
    /\ SetRuns([d \in BOOLEAN |->
                  WriteRootIndex(WriteLibraryIndexes(RunState(d), 1, d), d)])
    /\ pc' = "done"
    /\ UNCHANGED << idx, LIMIT, zonesLeft, last >>
    /\ UNCHANGED indexerVars
    /\ UNCHANGED callVars

Next ==
    \/ Start
    \/ ConvertInstrumentFile
    \/ ConvertPercussionFile
    \/ WriteIndexes

Spec == Init /\ [][Next]_vars

\* ============================================================ the Indexer

(***************************************************************************)
(* scripts/generate-index.js.  A name of the tree is a sequence of         *)
(* characters, a path the sequence of the names below LIBRARY_DIR.         *)
(***************************************************************************)

PresetJsonName == <<"p", "r", "e", "s", "e", "t", ".", "j", "s", "o", "n">>

IndexJsonName == <<"i", "n", "d", "e", "x", ".", "j", "s", "o", "n">>

SharedName == <<"_", "s", "h", "a", "r", "e", "d">>

GitName == <<".", "g", "i", "t">>

SKIP_DIRS ==
    { GitName,
      <<".", "h", "u", "s", "k", "y">>,
      <<"s", "c", "r", "i", "p", "t", "s">>,
      <<"n", "o", "d", "e", "_", "m", "o", "d", "u", "l", "e", "s">>,
      <<".", "g", "i", "t", "h", "u", "b">> }

\* ------------------------------------------------------- string comparison

LowerLetters ==
    <<"a", "b", "c", "d", "e", "f", "g", "h", "i", "j", "k", "l", "m",
      "n", "o", "p", "q", "r", "s", "t", "u", "v", "w", "x", "y", "z">>

UpperLetters ==
    <<"A", "B", "C", "D", "E", "F", "G", "H", "I", "J", "K", "L", "M",
      "N", "O", "P", "Q", "R", "S", "T", "U", "V", "W", "X", "Y", "Z">>

DigitChars == <<"0", "1", "2", "3", "4", "5", "6", "7", "8", "9">>

\* The printable ASCII characters (but the backquote) in the order of their
\* codes, which is the order of their UTF-16 code units.
AsciiChars ==
    <<" ", "!", "\"", "#", "$", "%", "&", "'", "(", ")", "*", "+", ",", "-", ".", "/">>
    \o DigitChars
    \o <<":", ";", "<", "=", ">", "?", "@">>
    \o UpperLetters
    \o <<"[", "\\", "]", "^", "_">>
    \o LowerLetters
    \o <<"{", "|", "}", "~">>

\* The place of a character in the order of the code units.
CodeUnit(c) == CHOOSE i \in 1..Len(AsciiChars) : AsciiChars[i] = c

RECURSIVE CodeUnitLess(_, _)
\* a < b for two strings, as Array.prototype.sort() orders strings.
CodeUnitLess(a, b) ==
    IF b = <<>> THEN FALSE
    ELSE IF a = <<>> THEN TRUE
    ELSE IF Head(a) # Head(b) THEN CodeUnit(Head(a)) < CodeUnit(Head(b))
    ELSE CodeUnitLess(Tail(a), Tail(b))

RECURSIVE SortedNames(_)
\* The names of a set in ascending code unit order.
SortedNames(names) ==
    IF names = {} THEN <<>>
    ELSE LET least == CHOOSE x \in names : \A y \in names \ {x} : CodeUnitLess(x, y)
         IN  <<least>> \o SortedNames(names \ {least})

Reversed(seq) == [i \in 1..Len(seq) |-> seq[Len(seq) + 1 - i]]

IsUpper(c) == \E i \in 1..Len(UpperLetters) : UpperLetters[i] = c

ToLower(c) ==
    IF IsUpper(c)
    THEN LowerLetters[CHOOSE i \in 1..Len(UpperLetters) : UpperLetters[i] = c]
    ELSE c

\* The characters of the model's names and categories in the order of the
\* locale's collation: white space, punctuation, digits, letters.
CollationChars == <<" ", "_", "-", ".">> \o DigitChars \o LowerLetters

\* The weight that orders two characters whatever their case.
PrimaryWeight(c) == CHOOSE i \in 1..Len(CollationChars) : CollationChars[i] = ToLower(c)

RECURSIVE ComparePrimary(_, _)
ComparePrimary(a, b) ==
    IF a = <<>> /\ b = <<>> THEN 0
    ELSE IF a = <<>> THEN -1
    ELSE IF b = <<>> THEN 1
    ELSE IF PrimaryWeight(Head(a)) < PrimaryWeight(Head(b)) THEN -1
    ELSE IF PrimaryWeight(Head(a)) > PrimaryWeight(Head(b)) THEN 1
    ELSE ComparePrimary(Tail(a), Tail(b))

RECURSIVE CompareCase(_, _)
\* Two strings that differ in case only: the lower case letter comes first.
CompareCase(a, b) ==
    IF a = <<>> \/ b = <<>> THEN 0
    ELSE IF IsUpper(Head(a)) = IsUpper(Head(b)) THEN CompareCase(Tail(a), Tail(b))
    ELSE IF IsUpper(Head(b)) THEN -1 ELSE 1

\* a.localeCompare(b): negative, 0 or positive.
localeCompare(a, b) ==
    IF ComparePrimary(a, b) # 0 THEN ComparePrimary(a, b) ELSE CompareCase(a, b)

\* ------------------------------------------------------------ the helpers

\* readdirSync(dir, { withFileTypes: true }): the names in dir, in the order
\* the file system lists them, here the ascending or the descending one.
ReadDir(tree, dir, descending) ==
    LET below == { q \in tree.dirs \cup DOMAIN tree.fs :
                     Len(q) = Len(dir) + 1 /\ SubSeq(q, 1, Len(dir)) = dir }
        names == { q[Len(q)] : q \in below }
    IN  IF descending THEN Reversed(SortedNames(names)) ELSE SortedNames(names)

RECURSIVE findPresetFiles(_, _, _, _)
RECURSIVE FindInEntries(_, _, _, _, _)
\* findPresetFiles(dir, results)
findPresetFiles(tree, dir, results, descending) ==
    IF dir \notin tree.dirs THEN results
    ELSE FindInEntries(tree, dir, ReadDir(tree, dir, descending), results, descending)

\* The loop of findPresetFiles over the entries of dir.
FindInEntries(tree, dir, entries, results, descending) ==
    IF entries = <<>> THEN results
    ELSE FindInEntries(tree, dir, Tail(entries),
                       IF Append(dir, Head(entries)) \in tree.dirs
                       THEN findPresetFiles(tree, Append(dir, Head(entries)),
                                            results, descending)
                       ELSE IF Head(entries) = PresetJsonName
                       THEN Append(results, Append(dir, Head(entries)))
                       ELSE results,
                       descending)

RECURSIVE JoinNames(_)
\* The names of a path joined by '/'.
JoinNames(names) ==
    IF names = <<>> THEN <<>>
    ELSE IF Len(names) = 1 THEN names[1]
    ELSE names[1] \o <<"/">> \o JoinNames(Tail(names))

\* path.relative(libraryRoot, presetPath), presetPath being below libraryRoot.
Relative(libraryRoot, presetPath) ==
    JoinNames(SubSeq(presetPath, Len(libraryRoot) + 1, Len(presetPath)))

\* text.replace(/\\/g, '/')
BackslashesToSlashes(cs) ==
    [i \in 1..Len(cs) |-> IF cs[i] = "\\" THEN "/" ELSE cs[i]]

\* The relPath of buildPresetEntry.
RelPath(presetPath, libraryRoot) ==
    BackslashesToSlashes(Relative(libraryRoot, presetPath))

\* zoneCount, keyRangeLow and keyRangeHigh before countZones.
NoZoneStats == [zoneCount |-> 0, keyRangeLow |-> 127, keyRangeHigh |-> 0]

RECURSIVE CountSamplerZones(_, _)
\* The loop of countZones over the zones of a sampler node.
CountSamplerZones(zones, stats) ==
    IF zones = <<>> THEN stats
    ELSE CountSamplerZones(Tail(zones),
            IF "keyRange" \in DOMAIN Head(zones)
            THEN [ zoneCount    |-> stats.zoneCount + 1,
                   keyRangeLow  |-> Min2(stats.keyRangeLow, Head(zones).keyRange.low),
                   keyRangeHigh |-> Max2(stats.keyRangeHigh, Head(zones).keyRange.high) ]
            ELSE [stats EXCEPT !.zoneCount = @ + 1])

\* node.type === 'sampler' && node.config?.zones
IsSamplerWithZones(node) ==
    /\ "type" \in DOMAIN node /\ node.type = "sampler"
    /\ "config" \in DOMAIN node /\ "zones" \in DOMAIN node.config

\* node.type === 'composite' && node.children
IsCompositeWithChildren(node) ==
    /\ "type" \in DOMAIN node /\ node.type = "composite"
    /\ "children" \in DOMAIN node

RECURSIVE countZones(_, _)
RECURSIVE CountChildren(_, _)
\* countZones(node), node being <<>> when it is undefined; stats holds the
\* three variables the function updates.
countZones(node, stats) ==
    IF node = Absent THEN stats
    ELSE IF IsSamplerWithZones(node[1])
    THEN CountSamplerZones(node[1].config.zones, stats)
    ELSE IF IsCompositeWithChildren(node[1])
    THEN CountChildren(node[1].children, stats)
    ELSE stats

\* The loop of countZones over the children of a composite node.
CountChildren(children, stats) ==
    IF children = <<>> THEN stats
    ELSE CountChildren(Tail(children), countZones(Some(Head(children)), stats))

\* data.node || data.graph
RootNode(data) ==
    IF "node" \in DOMAIN data THEN Some(data.node)
    ELSE IF "graph" \in DOMAIN data THEN Some(data.graph)
    ELSE Absent

\* The entry buildPresetEntry makes of the document data, the path relPath
\* and the zone statistics.
PresetEntry(data, relPath, stats) ==
    [ type     |-> "preset",
      path     |-> relPath,
      category |-> IF "category" \in DOMAIN data /\ data.category # <<>>
                   THEN data.category
                   ELSE <<"s", "a", "m", "p", "l", "e", "r">>,
      tags     |-> IF "tags" \in DOMAIN data THEN data.tags ELSE <<>> ]
    @@ (IF "name" \in DOMAIN data THEN [name |-> data.name] ELSE EmptyMap)
    @@ (IF "metadata" \in DOMAIN data /\ "gmProgram" \in DOMAIN data.metadata
           /\ data.metadata.gmProgram < 128
        THEN [gmProgram |-> data.metadata.gmProgram] ELSE EmptyMap)
    @@ (IF stats.zoneCount > 0
        THEN [ zoneCount |-> stats.zoneCount,
               keyRange  |-> [low |-> stats.keyRangeLow, high |-> stats.keyRangeHigh] ]
        ELSE EmptyMap)

\* buildPresetEntry(presetPath, libraryRoot): JSON.parse throws on a text
\* that is no JSON.
buildPresetEntry(tree, presetPath, libraryRoot) ==
    IF ~tree.fs[presetPath].parses
    THEN [threw |-> TRUE, entry |-> Absent]
    ELSE [threw |-> FALSE,
          entry |-> Some(PresetEntry(tree.fs[presetPath].json,
                                     RelPath(presetPath, libraryRoot),
                                     countZones(RootNode(tree.fs[presetPath].json),
                                                NoZoneStats)))]

\* ----------------------------------------------------------------- main

\* The comparison function main sorts the entries of a library with.
CompareEntries(a, b) ==
    IF localeCompare(a.category, b.category) # 0
    THEN localeCompare(a.category, b.category)
    ELSE localeCompare(IF "name" \in DOMAIN a THEN a.name ELSE <<>>,
                       IF "name" \in DOMAIN b THEN b.name ELSE <<>>)

RECURSIVE InsertEntry(_, _)
\* e put into a sorted list behind the entries that do not come after it.
InsertEntry(sorted, e) ==
    IF sorted = <<>> THEN <<e>>
    ELSE IF CompareEntries(e, Head(sorted)) < 0 THEN <<e>> \o sorted
    ELSE <<Head(sorted)>> \o InsertEntry(Tail(sorted), e)

RECURSIVE SortEntries(_, _)
\* presetEntries.sort(...): the sort is stable.
SortEntries(entries, sorted) ==
    IF entries = <<>> THEN sorted
    ELSE SortEntries(Tail(entries), InsertEntry(sorted, Head(entries)))

\* Caught gone wrong: the catch block does not count the error.
CaughtUncounted(r, summary) ==
    IF r.threw THEN summary
    ELSE [summary EXCEPT !.presetEntries = Append(@, r.entry[1])]

\* The try and catch blocks around buildPresetEntry, whose result is r.
Caught(r, summary) ==
    IF r.threw THEN [summary EXCEPT !.errors = @ + 1]
    ELSE [summary EXCEPT !.presetEntries = Append(@, r.entry[1])]

RECURSIVE SummarizeFiles(_, _, _, _)
\* The loop of main over the preset files of a library.
SummarizeFiles(tree, files, libraryRoot, summary) ==
    IF files = <<>> THEN summary
    ELSE SummarizeFiles(tree, Tail(files), libraryRoot,
                        Caught(buildPresetEntry(tree, Head(files), libraryRoot), summary))

DisplayName(libraryName) ==
    IF libraryName = SharedName THEN "Built-in" ELSE UnderscoresToSpaces(libraryName)

LibraryDescription(libraryName, presetEntries) ==
    IF libraryName = SharedName
    THEN "Built-in oscillator synths and effects - "
         \o ToString(Len(presetEntries)) \o " presets"
    ELSE DisplayName(libraryName) \o " soundfont - "
         \o ToString(Len(presetEntries)) \o " presets"

\* IndexerLibraryIndex gone wrong: the entries are added to those of the
\* index the library holds.
IndexerLibraryIndexAppending(libraryName, presetEntries) ==
    [ format      |-> "songwalker-index",
      version     |-> 1,
      name        |-> DisplayName(libraryName),
      description |-> LibraryDescription(libraryName, presetEntries),
      entries     |-> (IF <<libraryName, IndexJsonName>> \in DOMAIN libraryTree.fs
                       THEN libraryTree.fs[<<libraryName, IndexJsonName>>].json.entries
                       ELSE <<>>) \o presetEntries ]

IndexerLibraryIndex(libraryName, presetEntries) ==
    [ format      |-> "songwalker-index",
      version     |-> 1,
      name        |-> DisplayName(libraryName),
      description |-> LibraryDescription(libraryName, presetEntries),
      entries     |-> presetEntries ]

IndexerRootEntry(libraryName, presetEntries) ==
    [ type        |-> "index",
      name        |-> DisplayName(libraryName),
      path        |-> libraryName \o <<"/">> \o IndexJsonName,
      description |-> IF libraryName = SharedName
                      THEN "Built-in oscillator synths and effects (no samples)"
                      ELSE DisplayName(libraryName) \o " soundfont",
      presetCount |-> Len(presetEntries) ]

IndexerRootIndex(entries) ==
    [ format      |-> "songwalker-index",
      version     |-> 1,
      name        |-> "SongWalker Library",
      description |-> "Root index - select a source library to browse its presets",
      entries     |-> entries ]

\* The library directories main finds in LIBRARY_DIR.
TopLevel(tree) ==
    SortedNames({ name \in { q[1] : q \in { d \in tree.dirs : Len(d) = 1 } } :
                    name \notin SKIP_DIRS })

\* ------------------------------------------------------------- the tree

Chars_F_G == <<"F", "_", "G">>

\* A directory whose name holds a backslash.
Chars_a_b == <<"a", "\\", "b">>

\* The places of the tree where a preset.json may be.
PresetSlots ==
    << <<Chars_F_G, <<"p", "i", "a", "n", "o">>, <<"G", "d">>, PresetJsonName>>,
       <<Chars_F_G, <<"K", "i", "c", "k">>, PresetJsonName>>,
       <<SharedName, <<"S", "i", "n", "e">>, PresetJsonName>>,
       <<SharedName, Chars_a_b, PresetJsonName>>,
       <<GitName, PresetJsonName>> >>

\* A preset as the Converter writes it: one sampler node, two zones.
SamplerPreset ==
    [ format   |-> "songwalker-preset",
      version  |-> 1,
      name     |-> <<"G", "d", " ", "P", "i", "a", "n", "o">>,
      category |-> <<"s", "a", "m", "p", "l", "e", "r">>,
      tags     |-> <<"melodic", "piano", "gm:0", "one-shot">>,
      metadata |-> PresetMetadata(0, Some("piano"), "F_G", 0),
      node     |-> [ type   |-> "sampler",
                     config |-> [ oneShot |-> FALSE,
                                  zones |-> << [keyRange |-> [low |-> 21, high |-> 108]],
                                               [keyRange |-> [low |-> 0, high |-> 60]] >> ] ] ]

\* A percussion preset of the Converter: GM program 128.
DrumPreset ==
    [ format   |-> "songwalker-preset",
      version  |-> 1,
      name     |-> <<"b", "a", "s", "s", " ", "d", "r", "u", "m">>,
      category |-> <<"s", "a", "m", "p", "l", "e", "r">>,
      tags     |-> <<"percussion", "gm:128", "one-shot">>,
      metadata |-> PresetMetadata(128, Some("Percussion"), "F_G", 0),
      node     |-> [ type   |-> "sampler",
                     config |-> [ oneShot |-> TRUE,
                                  zones |-> << [keyRange |-> [low |-> 35, high |-> 35]] >> ] ] ]

\* A preset in the old format, with nested composite nodes, a zone without
\* key range, and neither category nor tags nor metadata.
CompositePreset ==
    [ name  |-> <<"B", "a", "s", "s">>,
      graph |-> [ type |-> "composite",
                  children |->
                    << [ type |-> "sampler",
                         config |-> [ zones |-> << [sampleRate |-> 44100] >> ] ],
                       [ type |-> "composite",
                         children |->
                           << [ type |-> "sampler",
                                config |-> [ zones |-> << [keyRange |-> [low |-> 60,
                                                                          high |-> 72]] >> ] ] >> ],
                       [ type |-> "oscillator" ] >> ] ]

\* A built-in synth: no zones, no name.
OscillatorPreset ==
    [ category |-> <<"s", "y", "n", "t", "h">>,
      tags     |-> <<"builtin">>,
      metadata |-> [license |-> "MIT"],
      node     |-> [ type |-> "oscillator" ] ]

\* What a preset.json of the tree may hold; the first is no JSON text.
PresetContents ==
    << [kind |-> "json", parses |-> FALSE],
       JsonFile(SamplerPreset),
       JsonFile(DrumPreset),
       JsonFile(CompositePreset),
       JsonFile(OscillatorPreset) >>

\* The directories of the tree: LIBRARY_DIR, the libraries F_G and _shared,
\* .git, and the directories above the preset files.
TreeDirs(files) ==
    { <<>>, <<Chars_F_G>>, <<SharedName>>, <<GitName>> }
    \cup UNION { { SubSeq(f, 1, n) : n \in 1..(Len(f) - 1) } : f \in files }

\* The tree with the content chosen for each slot (0: no file there), and
\* a root index left by an earlier run.
TreeOf(chosen) ==
    LET slots == { i \in 1..Len(PresetSlots) : chosen[i] # 0 }
    IN  [ fs |-> [ f \in { PresetSlots[i] : i \in slots } \cup { <<IndexJsonName>> } |->
                     IF f = <<IndexJsonName>> THEN JsonFile(IndexerRootIndex(<<>>))
                     ELSE PresetContents[chosen[CHOOSE i \in slots : PresetSlots[i] = f]] ],
          dirs |-> TreeDirs({ PresetSlots[i] : i \in slots }),
          writes |-> EmptyMap ]

\* The trees with at most max preset files.
Trees(max) ==
    { TreeOf(chosen) :
        chosen \in { c \in [1..Len(PresetSlots) -> 0..Len(PresetContents)] :
                       Cardinality({ i \in 1..Len(PresetSlots) : c[i] # 0 }) <= max } }

\* The Converter is not run.
ConverterOff ==
    /\ pc = "off"
    /\ idx = 1
    /\ LIMIT = Infinity
    /\ zonesLeft = 0
    /\ fs = [d \in BOOLEAN |-> InitialRun.fs]
    /\ dirs = [d \in BOOLEAN |-> InitialRun.dirs]
    /\ writes = [d \in BOOLEAN |-> InitialRun.writes]
    /\ audioHashes = [d \in BOOLEAN |-> InitialRun.audioHashes]
    /\ totalDedupSaved = [d \in BOOLEAN |-> 0]
    /\ nAudio = [d \in BOOLEAN |-> 0]
    /\ entriesByLibrary = [d \in BOOLEAN |-> <<>>]
    /\ convertedCount = [d \in BOOLEAN |-> 0]
    /\ errorCount = [d \in BOOLEAN |-> 0]
    /\ last = NoIteration

InitIndexer ==
    /\ ConverterOff
    /\ ipc = "scan"
    /\ run = 1
    /\ firstRun = EmptyMap
    /\ listDescending \in BOOLEAN
    /\ libraryTree \in Trees(MaxPresets)
    /\ topLevel = <<>>
    /\ libIdx = 1
    /\ rootEntries = <<>>
    /\ totalPresets = 0
    /\ totalErrors = 0
    /\ NoCall

\* ----------------------------------------------------------- the actions

\* main up to its loop: the libraries are listed.
ScanLibraries ==
    /\ ipc = "scan"
    /\ topLevel' = TopLevel(libraryTree)
    /\ ipc' = "libs"
    /\ UNCHANGED << run, firstRun, listDescending, libraryTree, libIdx, rootEntries,
                    totalPresets, totalErrors >>
    /\ UNCHANGED converterVars
    /\ UNCHANGED callVars

\* The end of an iteration of main's loop: the library index is written,
\* the root entry pushed, the totals updated.
LibraryIndexed(libraryName, presetEntries, errors) ==
    /\ libraryTree' = WriteFile(libraryTree, <<libraryName, IndexJsonName>>,
                                JsonFile(IndexerLibraryIndex(libraryName, presetEntries)))
    /\ rootEntries' = Append(rootEntries, IndexerRootEntry(libraryName, presetEntries))
    /\ totalPresets' = totalPresets + Len(presetEntries)
    /\ totalErrors' = totalErrors + errors
    /\ libIdx' = libIdx + 1

\* An iteration of main's loop from the sort on, summary being what the
\* loop over the preset files gave.
LibrarySummarized(libraryName, summary) ==
    LibraryIndexed(libraryName, SortEntries(summary.presetEntries, <<>>), summary.errors)

\* One iteration of main's loop over the libraries.
IndexLibrary ==
    /\ ipc = "libs"
    /\ libIdx <= Len(topLevel)
    /\ LibrarySummarized(topLevel[libIdx],
                         SummarizeFiles(libraryTree,
                                        findPresetFiles(libraryTree, <<topLevel[libIdx]>>,
                                                        <<>>, listDescending),
                                        <<topLevel[libIdx]>>,
                                        [presetEntries |-> <<>>, errors |-> 0]))
    /\ UNCHANGED << ipc, run, firstRun, listDescending, topLevel >>
    /\ UNCHANGED converterVars
    /\ UNCHANGED callVars

\* The end of main: the root index is written.
WriteRoot ==
    /\ ipc = "libs"
    /\ libIdx > Len(topLevel)
    /\ libraryTree' = WriteFile(libraryTree, <<IndexJsonName>>,
                                JsonFile(IndexerRootIndex(rootEntries)))
    /\ ipc' = "done"
    /\ UNCHANGED << run, firstRun, listDescending, topLevel, libIdx, rootEntries,
                    totalPresets, totalErrors >>
    /\ UNCHANGED converterVars
    /\ UNCHANGED callVars

\* The script is started a second time on the tree the first run left;
\* the variables of main start anew.
RunAgain ==
    /\ ipc = "done"
    /\ run = 1
    /\ run' = 2
    /\ firstRun' = libraryTree.fs
    /\ ipc' = "scan"
    /\ topLevel' = <<>>
    /\ libIdx' = 1
    /\ rootEntries' = <<>>
    /\ totalPresets' = 0
    /\ totalErrors' = 0
    /\ UNCHANGED << listDescending, libraryTree >>
    /\ UNCHANGED converterVars
    /\ UNCHANGED callVars

NextIndexer ==
    \/ ScanLibraries
    \/ IndexLibrary
    \/ WriteRoot
    \/ RunAgain

SpecIndexer == InitIndexer /\ [][NextIndexer]_vars

\* ====================================================== single calls

\* The most zones of the instrument document of a single call.
MaxCallZones == 2

\* The file of i/ with the four digits of program gmProgram, variant 0.
InstrumentFileOf(gmProgram) ==
    [ name |-> "", m |-> Some([code |-> 10 * gmProgram, library |-> LibraryChars]) ]

\* main meets one instrument file, of any of the 128 GM programs, in a run
\* that has converted nothing yet.
InitInstrumentCall ==
    /\ ConverterOff
    /\ IndexerIdle
    /\ returned = Absent
    /\ call \in { Some([fn |-> "convertInstrument", gmProgram |-> p, doc |-> doc]) :
                    p \in 0..(Len(GM_CATEGORIES) - 1), doc \in InstrumentDocs(MaxCallZones) }

\* The state after the iteration of main's loop over i/ whose results are r.
InstrumentCalled(r) ==
    /\ SetRuns([d \in BOOLEAN |-> r[d].st])
    /\ last' = [ dir |-> "i", file |-> 0, doc |-> call[1].doc,
                 outcome |-> [d \in BOOLEAN |-> r[d].outcome],
                 entry |-> [d \in BOOLEAN |-> r[d].entry] ]
    /\ returned' = Some(r[FALSE].outcome)

\* The iteration of main's loop over i/ for the file of the call.
CallConvertInstrument ==
    /\ call # Absent
    /\ call[1].fn = "convertInstrument"
    /\ returned = Absent
    /\ InstrumentCalled([d \in BOOLEAN |->
                           InstrumentIteration(RunState(d),
                                               parseInstrumentFilename(
                                                   InstrumentFileOf(call[1].gmProgram)),
                                               call[1].doc, LIMIT, d)])
    /\ UNCHANGED << pc, idx, LIMIT, zonesLeft, call >>
    /\ UNCHANGED indexerVars

SpecInstrument == InitInstrumentCall /\ [][CallConvertInstrument]_vars

\* The pitches of the zones of a single call reach from -50 * MaxPitchSteps
\* to 50 * MaxPitchSteps hundredths of a semitone.
MaxPitchSteps == 260

\* The baseDetune normalizePitch computes for a zone.
BaseDetuneOf(zone) ==
    OrDefault(zone.originalPitch, 6000)
    - 100 * OrDefault(zone.coarseTune, 0) - OrDefault(zone.fineTune, 0)

\* A zone with the three fields normalizePitch reads.
PitchZone(originalPitch, coarseTune, fineTune) ==
    [NoZoneFields EXCEPT !.originalPitch = originalPitch,
                         !.coarseTune = coarseTune, !.fineTune = fineTune]

OriginalPitches == {Absent} \cup { Some(50 * k) : k \in (-MaxPitchSteps)..MaxPitchSteps }

CoarseTunes == {Absent, Some(-1), Some(0), Some(1)}

FineTunes == {Absent, Some(-50), Some(0), Some(1), Some(50)}

\* The zones whose baseDetune is detune, with the tunings of the model and
\* the originalPitch that makes up for them.
ZonesWithBaseDetune(detune) ==
    { z \in { PitchZone(Some(detune + 100 * Coalesce(c, 0) + Coalesce(f, 0)), c, f) :
                c \in CoarseTunes, f \in FineTunes } \cup { PitchZone(Absent, Absent, Absent) } :
        BaseDetuneOf(z) = detune }

\* normalizePitch is to be called on a zone.
InitPitchCall ==
    /\ ConverterOff
    /\ IndexerIdle
    /\ returned = Absent
    /\ call \in { Some([fn |-> "normalizePitch", zone |-> PitchZone(o, c, f)]) :
                    o \in OriginalPitches, c \in CoarseTunes, f \in FineTunes }

\* normalizePitch(zone) for the zone of the call.
CallNormalizePitch ==
    /\ call # Absent
    /\ call[1].fn = "normalizePitch"
    /\ returned = Absent
    /\ returned' = Some([first |-> normalizePitch(call[1].zone)])
    /\ UNCHANGED call
    /\ UNCHANGED << converterVars, indexerVars >>

\* The second call, on a zone whose baseDetune is the one zone2 has.
Renormalized(zone2) ==
    returned' = Some([first |-> returned[1].first, zone |-> zone2,
                      second |-> normalizePitch(zone2)])

\* normalizePitch on a zone whose baseDetune is made of the pair the first
\* call returned.
CallNormalizePitchAgain ==
    /\ call # Absent
    /\ call[1].fn = "normalizePitch"
    /\ returned # Absent
    /\ "second" \notin DOMAIN returned[1]
    /\ \E zone2 \in ZonesWithBaseDetune(100 * returned[1].first.rootNote
                                          + returned[1].first.fineTuneCents) :
          Renormalized(zone2)
    /\ UNCHANGED call
    /\ UNCHANGED << converterVars, indexerVars >>

NextPitch ==
    \/ CallNormalizePitch
    \/ CallNormalizePitchAgain

SpecPitch == InitPitchCall /\ [][NextPitch]_vars

\* ============================================================ the claims

\* The audio files of the run without --dry-run.
AudioPaths == { p \in DOMAIN fs[FALSE] : fs[FALSE][p].kind = "audio" }

\* The preset documents below the directory of library lib.
PresetPathsOf(lib) ==
    { p \in DOMAIN fs[FALSE] : p[1] = JoinChars(lib) /\ p[Len(p)] = "preset.json" }

\* A zone has an audio payload: a file or a sample that is a base64 text.
HasPayload(zone) ==
    \/ zone.file # Absent /\ zone.file[1].type = "string"
    \/ zone.file = Absent /\ zone.sample # Absent /\ zone.sample[1].type = "string"

\* Converting the document throws: its text does not parse, or the payload
\* of one of its zones is no text.
DocThrows(doc) ==
    \/ ~doc.parses
    \/ \E i \in 1..Len(doc.zones) :
          LET z == doc.zones[i]
          IN  \/ z.file # Absent /\ z.file[1].type # "string"
              \/ z.file = Absent /\ z.sample # Absent /\ z.sample[1].type # "string"

\* Run d reads the file the loop at pc stands at.
ReadsFile(d) ==
    /\ convertedCount[d] < LIMIT
    /\ \/ /\ pc = "i" /\ idx <= Len(InstrumentFiles)
          /\ InstrumentFiles[idx].m # Absent
          /\ InstrumentFiles[idx].m[1].code < 1280
       \/ /\ pc = "p" /\ idx <= Len(PercussionFiles)
          /\ PercussionFiles[idx].m # Absent

\* C1 (as claimed): at the end of a run without --dry-run every content
\* hash the run has met is held by exactly one audio file of the output
\* tree, and totalDedupSaved is the number of zones with an audio payload
\* minus the number of distinct content hashes.
C1_DedupOneFilePerContent ==
    pc = "done" =>
        /\ \A h \in DOMAIN audioHashes[FALSE] :
              Cardinality({ p \in AudioPaths : Sha256Hex16(fs[FALSE][p].bytes) = h }) = 1
        /\ totalDedupSaved[FALSE]
              = nAudio[FALSE] - Cardinality(DOMAIN audioHashes[FALSE])

\* The counter half of C1 alone, which the code keeps: totalDedupSaved is
\* the number of decoded payloads minus the number of distinct hashes.
DedupCounterExact ==
    \A d \in BOOLEAN :
        totalDedupSaved[d] = nAudio[d] - Cardinality(DOMAIN audioHashes[d])

\* C2 (as claimed): no audio file is written a second time during a run.
C2_NoAudioOverwrite ==
    \A p \in AudioPaths : writes[FALSE][p] <= 1

\* C3 (as claimed): at the end of a run without --dry-run no preset.json
\* has been written twice, and each library holds as many preset.json
\* files as its index has entries and as the root index counts for it.
C3_OnePresetPerInstrument ==
    pc = "done" =>
        \A k \in 1..Len(entriesByLibrary[FALSE]) :
            LET lib == entriesByLibrary[FALSE][k].library
                n   == Cardinality(PresetPathsOf(lib))
            IN  /\ \A p \in PresetPathsOf(lib) : writes[FALSE][p] <= 1
                /\ n = Len(fs[FALSE][<<JoinChars(lib), "index.json">>].json.entries)
                /\ n = fs[FALSE][<<"index.json">>].json.entries[k].presetCount

\* The 16 GM instrument families.
GmFamilies == { GM_CATEGORIES[i] : i \in 1..Len(GM_CATEGORIES) }

\* Some zone of the list is on MIDI channel 128.
HasPercussionZone(zones) ==
    \E i \in 1..Len(zones) : zones[i].midi = Some(128)

\* The last iteration read a document that converts without an exception.
LastConverted(d) ==
    /\ last.outcome[d] \notin {"", "break", "continue"}
    /\ ~DocThrows(last.doc)

\* The directory name the model's input gives the instrument of the last
\* iteration: "Gd Piano" for program 0, "Percussion_B1_35" for note 35.
LastSafeName == IF last.dir = "i" THEN "Gd_Piano" ELSE "PercussionB135"

\* The tags are percussion tags: "percussion" first, no "melodic", no family.
PercussionTagSet(tags) ==
    /\ Len(tags) >= 1
    /\ tags[1] = "percussion"
    /\ \A j \in 1..Len(tags) : tags[j] \notin ({"melodic"} \cup GmFamilies)

C5_PercussionByOrigin ==
    \A d \in BOOLEAN :
        (last.dir = "p" /\ last.outcome[d] = "entry")
        => /\ last.entry[d][1].path
                 = <<"percussion", "individual", "PercussionB135", "preset.json">>
           /\ ~d => /\ <<"F_G">> \o last.entry[d][1].path \in DOMAIN fs[d]
                    /\ fs[d][<<"F_G">> \o last.entry[d][1].path].json.node.config.oneShot

\* C6 (as claimed): reading an instrument none of whose zones has a payload
\* changes neither the files nor the directories, the entries or the counts.
C6_EmptyInstrumentNoTrace ==
    [][ \A d \in BOOLEAN :
          ( /\ ReadsFile(d)
            /\ idx' = idx + 1
            /\ last'.doc.parses
            /\ \A i \in 1..Len(last'.doc.zones) :
                  /\ last'.doc.zones[i].file = Absent
                  /\ last'.doc.zones[i].sample = Absent )
          => /\ fs'[d] = fs[d]
             /\ dirs'[d] = dirs[d]
             /\ entriesByLibrary'[d] = entriesByLibrary[d]
             /\ convertedCount'[d] = convertedCount[d]
             /\ errorCount'[d] = errorCount[d] ]_vars

\* C7: the run with --dry-run makes no directory and writes no file, and
\* its counts, entries and dedup table are those of the run without it.
C7_DryRunWritesNothing ==
    /\ DOMAIN fs[TRUE] = {}
    /\ dirs[TRUE] = {}
    /\ DOMAIN writes[TRUE] = {}
    /\ convertedCount[TRUE] = convertedCount[FALSE]
    /\ errorCount[TRUE] = errorCount[FALSE]
    /\ entriesByLibrary[TRUE] = entriesByLibrary[FALSE]
    /\ audioHashes[TRUE] = audioHashes[FALSE]
    /\ totalDedupSaved[TRUE] = totalDedupSaved[FALSE]

\* Both runs are over, with conversions, a repeat and an error, and the run
\* without --dry-run has written audio files and the root index.
C7_Witness ==
    /\ pc = "done"
    /\ convertedCount[TRUE] = 2
    /\ totalDedupSaved[TRUE] >= 1
    /\ errorCount[TRUE] = 1
    /\ AudioPaths # {}
    /\ <<"index.json">> \in DOMAIN fs[FALSE]

\* The library indexes and the root index of run d are written.
IndexesWritten(d) ==
    /\ <<"index.json">> \in DOMAIN fs[d]
    /\ \A k \in 1..Len(entriesByLibrary[d]) :
          <<JoinChars(entriesByLibrary[d][k].library), "index.json">> \in DOMAIN fs[d]

\* C8: an instrument file whose conversion throws adds one to errorCount and
\* leaves convertedCount and the entries alone; the loop goes on with the
\* next file, and the run ends with the indexes written.
C8_ErrorCountedRunGoesOn ==
    [][ /\ \A d \in BOOLEAN :
              (ReadsFile(d) /\ idx' = idx + 1 /\ DocThrows(last'.doc))
              => /\ errorCount'[d] = errorCount[d] + 1
                 /\ convertedCount'[d] = convertedCount[d]
                 /\ entriesByLibrary'[d] = entriesByLibrary[d]
                 /\ pc' = pc
        /\ pc' = "done" => IndexesWritten(FALSE)' ]_vars

\* A file of p/ is converted after a file of i/ failed.
C8_Witness ==
    /\ errorCount[FALSE] = 1
    /\ last.dir = "p"
    /\ last.outcome[FALSE] = "entry"
    /\ convertedCount[FALSE] = 1

\* The library indexes and the root index the Converter writes name files
\* of its output tree (the Converter's half of C9).
ConverterIndexPathsValid ==
    pc = "done" =>
        /\ \A k \in 1..Len(entriesByLibrary[FALSE]) :
              LET lib   == JoinChars(entriesByLibrary[FALSE][k].library)
                  index == fs[FALSE][<<lib, "index.json">>].json
              IN  \A j \in 1..Len(index.entries) :
                     /\ <<lib>> \o index.entries[j].path \in DOMAIN fs[FALSE]
                     /\ index.entries[j].path[Len(index.entries[j].path)] = "preset.json"
        /\ \A k \in 1..Len(fs[FALSE][<<"index.json">>].json.entries) :
              fs[FALSE][<<"index.json">>].json.entries[k].path \in DOMAIN fs[FALSE]

RECURSIVE SplitPath(_, _)
\* The names of a path written with '/' between them; name holds the
\* characters read of the name at hand.
SplitPath(cs, name) ==
    IF cs = <<>> THEN <<name>>
    ELSE IF Head(cs) = "/" THEN <<name>> \o SplitPath(Tail(cs), <<>>)
    ELSE SplitPath(Tail(cs), Append(name, Head(cs)))

\* The document of the index.json in directory dir of the Indexer's tree.
IndexIn(dir) == libraryTree.fs[Append(dir, IndexJsonName)].json

\* C9 (as claimed, for the Indexer): after a run of the Indexer every path
\* of an entry of a library index names a preset.json that exists below the
\* library directory, and every path of an entry of the root index names a
\* library index that exists below the root directory.
C9_IndexerPathsValid ==
    ipc = "done" =>
        /\ \A k \in 1..Len(topLevel) :
              \A j \in 1..Len(IndexIn(<<topLevel[k]>>).entries) :
                 LET names == SplitPath(IndexIn(<<topLevel[k]>>).entries[j].path, <<>>)
                 IN  /\ <<topLevel[k]>> \o names \in DOMAIN libraryTree.fs
                     /\ names[Len(names)] = PresetJsonName
        /\ \A k \in 1..Len(IndexIn(<<>>).entries) :
              LET names == SplitPath(IndexIn(<<>>).entries[k].path, <<>>)
              IN  /\ names \in DOMAIN libraryTree.fs
                  /\ names[Len(names)] = IndexJsonName

\* No name of the tree holds a backslash.
NoBackslashInNames ==
    \A f \in DOMAIN libraryTree.fs :
        \A i \in 1..Len(f) : \A j \in 1..Len(f[i]) : f[i][j] # "\\"

\* What C9 says of the Indexer holds on the trees without such a name.
IndexerPathsValidWithoutBackslash == NoBackslashInNames => C9_IndexerPathsValid

\* The preset.json files below the library directory lib.
PresetFilesOf(lib) ==
    { f \in DOMAIN libraryTree.fs : f[1] = lib /\ f[Len(f)] = PresetJsonName }

\* The preset.json files of lib that hold a JSON text.
ParsedFilesOf(lib) == { f \in PresetFilesOf(lib) : libraryTree.fs[f].parses }

\* C10: after a run of the Indexer totalErrors is the number of preset.json
\* files of the libraries that do not parse; every library has its index
\* written, with one entry for each of its preset.json files that parses and
\* none for the others; the root index is written, with one entry for each
\* library whose presetCount is the number of entries of the library index.
C10_IndexerErrorPolicy ==
    ipc = "done" =>
        /\ totalErrors = Cardinality(UNION { PresetFilesOf(topLevel[k]) \ ParsedFilesOf(topLevel[k])
                                             : k \in 1..Len(topLevel) })
        /\ <<IndexJsonName>> \in DOMAIN libraryTree.fs
        /\ Len(IndexIn(<<>>).entries) = Len(topLevel)
        /\ \A k \in 1..Len(topLevel) :
              /\ <<topLevel[k], IndexJsonName>> \in DOMAIN libraryTree.fs
              /\ Len(IndexIn(<<topLevel[k]>>).entries)
                    = Cardinality(ParsedFilesOf(topLevel[k]))
              /\ \A f \in PresetFilesOf(topLevel[k]) :
                    f \in ParsedFilesOf(topLevel[k])
                    <=> \E j \in 1..Len(IndexIn(<<topLevel[k]>>).entries) :
                           IndexIn(<<topLevel[k]>>).entries[j].path = RelPath(f, <<topLevel[k]>>)
              /\ IndexIn(<<>>).entries[k].presetCount
                    = Len(IndexIn(<<topLevel[k]>>).entries)
              /\ IndexIn(<<>>).entries[k].presetCount
                    = Cardinality(PresetFilesOf(topLevel[k]))
                      - Cardinality(PresetFilesOf(topLevel[k]) \ ParsedFilesOf(topLevel[k]))

\* The Indexer has run on a tree where a preset of library F_G does not
\* parse, beside one that does, and library _shared holds a preset.
C10_Witness ==
    /\ ipc = "done"
    /\ totalErrors = 1
    /\ totalPresets = 2
    /\ Cardinality(PresetFilesOf(Chars_F_G)) = 2
    /\ Cardinality(ParsedFilesOf(Chars_F_G)) = 1
    /\ Cardinality(ParsedFilesOf(SharedName)) = 1

\* The files of the tree named index.json.
IndexFiles(files) == { f \in DOMAIN files : f[Len(f)] = IndexJsonName }

\* C11: a second run of the Indexer on the tree the first run left, whose
\* preset.json files are those the first run read, finds the libraries of
\* the first run and leaves every index.json, of a library or of the root,
\* with the document the first run wrote, and every other file as it was.
C11_IndexerIdempotent ==
    (run = 2 /\ ipc = "done") =>
        /\ Len(topLevel) = Len(firstRun[<<IndexJsonName>>].json.entries)
        /\ \A k \in 1..Len(topLevel) :
              firstRun[<<IndexJsonName>>].json.entries[k].path
                 = topLevel[k] \o <<"/">> \o IndexJsonName
        /\ IndexFiles(libraryTree.fs) = IndexFiles(firstRun)
        /\ \A f \in IndexFiles(firstRun) : libraryTree.fs[f] = firstRun[f]
        /\ libraryTree.fs = firstRun

\* The second run is over on a tree where library F_G holds two presets
\* with the same category and name, and both runs wrote its index.
C11_Witness ==
    /\ run = 2
    /\ ipc = "done"
    /\ Cardinality(ParsedFilesOf(Chars_F_G)) = 2
    /\ \A f \in ParsedFilesOf(Chars_F_G) : libraryTree.fs[f].json = SamplerPreset
    /\ Len(IndexIn(<<Chars_F_G>>).entries) = 2
    /\ libraryTree.writes[<<Chars_F_G, IndexJsonName>>] = 2
    /\ libraryTree.writes[<<IndexJsonName>>] = 2

\* The tags main gives an instrument of p/ with MIDI note 35.
ReplacedTags == <<"percussion", "midi:35">>

\* The entries of the library indexes of run d that come from a file of p/.
PercussionIndexEntries(d) ==
    UNION { { e \in { fs[d][<<JoinChars(entriesByLibrary[d][k].library), "index.json">>]
                          .json.entries[j]
                      : j \in 1..Len(entriesByLibrary[d][k].entries) } :
                e.name = JoinChars(PercussionName(35)) }
            : k \in 1..Len(entriesByLibrary[d]) }

\* The index half of C12, which the code keeps: in the library indexes the
\* tags of an instrument of p/ are exactly "percussion" and "midi:35".
PercussionIndexTagsReplaced ==
    pc = "done" => \A e \in PercussionIndexEntries(FALSE) : e.tags = ReplacedTags

\* C12 (as claimed): the tags of an instrument converted from p/ with MIDI
\* note 35 are exactly "percussion" and "midi:35", in the entry kept for
\* the library index and in the preset.json written for it.
C12_PercussionTagsReplaced ==
    \A d \in BOOLEAN :
        (last.dir = "p" /\ last.outcome[d] = "entry")
        => /\ last.entry[d][1].tags = ReplacedTags
           /\ ~d => fs[d][<<"F_G">> \o last.entry[d][1].path].json.tags = ReplacedTags

\* The 16 GM instrument families in the order of their declaration.
FamiliesInOrder ==
    << "piano", "chromatic-percussion", "organ", "guitar", "bass", "strings",
       "ensemble", "brass", "reed", "pipe", "synth-lead", "synth-pad",
       "synth-effects", "ethnic", "percussive", "sound-effects" >>

\* The family of GM program p: eight programs to a family.
FamilyOf(p) == FamiliesInOrder[(p \div 8) + 1]

\* The directory name of the instrument of GM program p: the name table of
\* the model knows program 0 only, the others are "Program p".
SafeNameOf(p) == IF p = 0 THEN "Gd_Piano" ELSE "Program_" \o ToString(p)

\* The single call converted a melodic instrument in run d.
MelodicConverted(d) ==
    /\ call # Absent
    /\ returned # Absent
    /\ last.outcome[d] = "entry"
    /\ ~HasPercussionZone(last.doc.zones)

\* The preset.json written for the entry of the single call.
CalledPreset == fs[FALSE][<<"F_G">> \o last.entry[FALSE][1].path].json

\* What holds of the directory in C13: a melodic instrument of GM program p
\* is written to {library}/instruments/{family of p}/{sanitized name}.
MelodicDirectory(d) ==
    /\ last.entry[d][1].path
          = <<"instruments", FamilyOf(call[1].gmProgram),
              SafeNameOf(call[1].gmProgram), "preset.json">>
    /\ ~d => <<"F_G">> \o last.entry[d][1].path \in DOMAIN fs[d]

C14_PitchRederivation ==
    (call # Absent /\ returned # Absent /\ "second" \in DOMAIN returned[1])
    => /\ BaseDetuneOf(returned[1].zone)
             = 100 * returned[1].first.rootNote + returned[1].first.fineTuneCents
       /\ returned[1].second = returned[1].first

\* The second call has returned for a zone with a negative baseDetune whose
\* first root note was clamped to 0 with a negative fineTuneCents.
C14_Witness ==
    /\ call # Absent
    /\ returned # Absent
    /\ "second" \in DOMAIN returned[1]
    /\ BaseDetuneOf(call[1].zone) = -250
    /\ returned[1].first = [rootNote |-> 0, fineTuneCents |-> -50]
    /\ returned[1].zone # call[1].zone

\* The second call has returned for a zone at 12950 or beyond, whose root
\* note was clamped to 127.
PitchClampedHigh ==
    /\ call # Absent
    /\ returned # Absent
    /\ "second" \in DOMAIN returned[1]
    /\ BaseDetuneOf(call[1].zone) >= 12950
    /\ returned[1].second = [rootNote |-> 127, fineTuneCents |-> 50]

====
